---------------------------- MODULE Spec2Model ----------------------------
(***************************************************************************)
(* A model of src/main.py: the DOCX processing API.                        *)
(*                                                                         *)
(*   DocxProcessor.extract_highlighted_text  the paragraph / run walk      *)
(*   DocxProcessor.docx_to_xml               package -> document XML text  *)
(*   DocxProcessor.xml_to_docx               document XML text -> package  *)
(*   submit_docx, convert_xml, convert_docx  the three request handlers    *)
(*                                                                         *)
(* A text (Python str) is a sequence of code points.  A byte string is a   *)
(* sequence of numbers in 0..255.  The markup of a document is written in  *)
(* a one-letter notation, one code point per lexeme:                       *)
(*     D d  <w:document> </w:document>     P p  <w:p> </w:p>               *)
(*     R r  <w:r> </w:r>                   T t  <w:t> </w:t>               *)
(*     H    <w:highlight/>                 G    <w:highlight w:val="green"/>*)
(*     U    <w:highlight val="red"/>       (an attribute in no namespace)  *)
(* and the character data is made of "x", " " and the two-byte "e-acute".  *)
(***************************************************************************)
EXTENDS Integers, Sequences, FiniteSets, TLC

(***************************************************************************)
(* Bounds of the model.                                                    *)
(***************************************************************************)
\* The largest number of elements (the root included) of a document tree.
MaxNodes == 6
\* The largest length of a text given to xml_to_docx.
MaxLen == 3
\* The largest number of entries of an archive given to docx_to_xml.
MaxParts == 2

(***************************************************************************)
(* Python values.                                                          *)
(***************************************************************************)
\* Python's None, where the code can produce it in place of a string.
None == "None"

\* The empty attribute dictionary of an element.
NoAttrib == [k \in {} |-> ""]

\* NAMESPACES['w'] (main.py:24-27): the names the searches look for are the
\* qualified names of the prefix w.  A tag of the model is a qualified name.
NAMESPACES == [w |-> "http://schemas.openxmlformats.org/wordprocessingml/2006/main"]

\* The qualified attribute name get_highlight_color reads (main.py:52).
QVal == "{http://schemas.openxmlformats.org/wordprocessingml/2006/main}val"

(***************************************************************************)
(* Element trees.  A tree is the sequence of its elements in document      *)
(* order (preorder); element 1 is the root; each element records its tag,  *)
(* its parent (0 for the root), its text (the character data before its    *)
(* first child; the empty text stands for Python's None too, which the     *)
(* code tests by truth value only) and its attributes.                     *)
(***************************************************************************)
\* The code points of the model's alphabet.
Chr == [sp |-> 32, x |-> 120, eacute |-> 233, euro |-> 8364,
        D |-> 68, d |-> 100, P |-> 80, p |-> 112, R |-> 82, r |-> 114,
        T |-> 84, t |-> 116, H |-> 72, G |-> 71, U |-> 85]

\* str.isspace() of one character.
IsSpace(c) == c = Chr.sp

\* The ancestors of element i of tree t (i itself not included).
RECURSIVE Ancestors(_, _)
Ancestors(t, i) ==
    IF t[i].parent = 0 THEN {}
    ELSE {t[i].parent} \cup Ancestors(t, t[i].parent)

\* The ascending sequence of the members of a set of element indices.
RECURSIVE SortedSeq(_)
SortedSeq(S) ==
    IF S = {} THEN <<>>
    ELSE LET m == CHOOSE x \in S : \A y \in S : x <= y
         IN  <<m>> \o SortedSeq(S \ {m})

\* A variant of findall that searches the children only ('w:<tag>' without
\* the leading './/'); the records of nested paragraphs depend on the
\* difference.
findall_children(t, elem, tag) ==
    SortedSeq({i \in DOMAIN t : t[i].tag = tag /\ t[i].parent = elem})

\* Element.findall('.//w:<tag>', NAMESPACES): the descendants of elem with
\* that qualified name, in document order; elem itself is never among them.
findall(t, elem, tag) ==
    SortedSeq({i \in DOMAIN t : t[i].tag = tag /\ elem \in Ancestors(t, i)})

\* Element.find('.//w:<tag>', NAMESPACES): the first such descendant, or 0
\* (Python's None) when there is none.
find(t, elem, tag) ==
    LET found == findall(t, elem, tag)
    IN  IF found = <<>> THEN 0 ELSE found[1]

\* dict.get(key, default) on an element's attributes.
AttribGet(attrib, key, default) ==
    IF key \in DOMAIN attrib THEN attrib[key] ELSE default

\* ''.join(parts)
RECURSIVE Join(_)
Join(parts) ==
    IF parts = <<>> THEN <<>> ELSE Head(parts) \o Join(Tail(parts))

\* str.strip(): the text without its leading and trailing white space.
RECURSIVE LStrip(_)
LStrip(s) ==
    IF s # <<>> /\ IsSpace(Head(s)) THEN LStrip(Tail(s)) ELSE s

RECURSIVE RStrip(_)
RStrip(s) ==
    IF s # <<>> /\ IsSpace(s[Len(s)]) THEN RStrip(SubSeq(s, 1, Len(s) - 1)) ELSE s

strip(s) == RStrip(LStrip(s))

(***************************************************************************)
(* DocxProcessor: the helpers of the walk (main.py:32-53).                 *)
(***************************************************************************)
\* The text parts extract_text_from_run collects: the non-empty texts of
\* the w:t descendants of the run, in document order.
RECURSIVE TextParts(_, _)
TextParts(t, elems) ==
    IF elems = <<>> THEN <<>>
    ELSE LET text == t[Head(elems)].text
         IN  (IF text # <<>> THEN <<text>> ELSE <<>>)
                 \o TextParts(t, Tail(elems))

extract_text_from_run(t, run_elem) ==
    Join(TextParts(t, findall(t, run_elem, "w:t")))

is_highlighted(t, run_elem) ==
    find(t, run_elem, "w:highlight") # 0

\* A variant of get_highlight_color whose attribute lookup has no default.
get_highlight_color_no_default(t, run_elem) ==
    LET highlight_elem == find(t, run_elem, "w:highlight")
    IN  IF highlight_elem # 0
        THEN AttribGet(t[highlight_elem].attrib, QVal, None)
        ELSE None

get_highlight_color(t, run_elem) ==
    LET highlight_elem == find(t, run_elem, "w:highlight")
    IN  IF highlight_elem # 0
        THEN AttribGet(t[highlight_elem].attrib, QVal, "yellow")
        ELSE None

(***************************************************************************)
(* The bounded set of document trees.                                      *)
(***************************************************************************)
Element(tag, parent, text, attrib) ==
    [tag |-> tag, parent |-> parent, text |-> text, attrib |-> attrib]

\* What an element below the root can be: a paragraph, a run, a highlight
\* marker (without attribute, with w:val, with an unqualified val) or a
\* text element.  Paragraphs and runs nest freely; markers and text
\* elements are children of runs and have no children.
Labels ==
    {[tag |-> "w:p", text |-> <<>>, attrib |-> NoAttrib],
     [tag |-> "w:r", text |-> <<>>, attrib |-> NoAttrib]}
    \cup {[tag |-> "w:highlight", text |-> <<>>, attrib |-> a] :
              a \in {NoAttrib, QVal :> "green", "val" :> "red"}}
    \cup {[tag |-> "w:t", text |-> s, attrib |-> NoAttrib] :
              s \in {<<Chr.x>>, <<Chr.sp>>}}

\* Whether an element with tag child can be put under one with tag parent.
CanHold(parent, child) ==
    IF child \in {"w:highlight", "w:t"}
    THEN parent = "w:r"
    ELSE parent \in {"w:document", "w:p", "w:r"}

\* The elements a new last element can be the child of: those on the path
\* from the last element up to the root.
OpenElements(t) == {Len(t)} \cup Ancestors(t, Len(t))

\* The trees of exactly n elements.  The root is w:document or, for a
\* document part whose root is a paragraph, w:p.
RECURSIVE TreesOfSize(_)
TreesOfSize(n) ==
    IF n = 1
    THEN {<<Element(tag, 0, <<>>, NoAttrib)>> : tag \in {"w:document", "w:p"}}
    ELSE {Append(x[1], Element(x[2].tag, x[3], x[2].text, x[2].attrib)) :
             x \in {y \in TreesOfSize(n - 1) \X Labels \X (1..(n - 1)) :
                       /\ y[3] \in OpenElements(y[1])
                       /\ CanHold(y[1][y[3]].tag, y[2].tag)}}

\* The sizes of the trees of the bounded set.
TreeSizes == 1..MaxNodes

(***************************************************************************)
(* The text of a tree, and ET.fromstring.                                  *)
(***************************************************************************)
OpenTag(e) ==
    CASE e.tag = "w:document" -> Chr.D
      [] e.tag = "w:p" -> Chr.P
      [] e.tag = "w:r" -> Chr.R
      [] e.tag = "w:t" -> Chr.T
      [] e.tag = "w:highlight" ->
            IF QVal \in DOMAIN e.attrib THEN Chr.G
            ELSE IF "val" \in DOMAIN e.attrib THEN Chr.U ELSE Chr.H

CloseTag(tag) ==
    CASE tag = "w:document" -> Chr.d
      [] tag = "w:p" -> Chr.p
      [] tag = "w:r" -> Chr.r
      [] tag = "w:t" -> Chr.t

\* The document text of tree t from element i on, stack being the open
\* elements (innermost last).  A highlight marker is an empty element.
RECURSIVE SerializeFrom(_, _, _)
SerializeFrom(t, i, stack) ==
    IF stack # <<>> /\ (i > Len(t) \/ t[i].parent # stack[Len(stack)])
    THEN <<CloseTag(t[stack[Len(stack)]].tag)>>
             \o SerializeFrom(t, i, SubSeq(stack, 1, Len(stack) - 1))
    ELSE IF i > Len(t) THEN <<>>
    ELSE IF t[i].tag = "w:highlight"
         THEN <<OpenTag(t[i])>> \o SerializeFrom(t, i + 1, stack)
         ELSE <<OpenTag(t[i])>> \o t[i].text
                  \o SerializeFrom(t, i + 1, Append(stack, i))

Serialize(t) == SerializeFrom(t, 1, <<>>)

\* The element a start tag (or an empty-element tag) opens.
ElementOf(c, parent) ==
    CASE c = Chr.D -> Element("w:document", parent, <<>>, NoAttrib)
      [] c = Chr.P -> Element("w:p", parent, <<>>, NoAttrib)
      [] c = Chr.R -> Element("w:r", parent, <<>>, NoAttrib)
      [] c = Chr.T -> Element("w:t", parent, <<>>, NoAttrib)
      [] c = Chr.H -> Element("w:highlight", parent, <<>>, NoAttrib)
      [] c = Chr.G -> Element("w:highlight", parent, <<>>, QVal :> "green")
      [] c = Chr.U -> Element("w:highlight", parent, <<>>, "val" :> "red")

IsStartTag(c) == c \in {Chr.D, Chr.P, Chr.R, Chr.T}
IsEmptyTag(c) == c \in {Chr.H, Chr.G, Chr.U}
IsEndTag(c) == c \in {Chr.d, Chr.p, Chr.r, Chr.t}

ParseError(msg, pos) ==
    [ok |-> FALSE, tree |-> <<>>, e |-> msg \o ": column " \o ToString(pos)]

\* The parser at position i of text s: nodes are the elements built so
\* far, stack the open ones, closed whether the root has been closed.
\* Character data goes to the text of the innermost open element while it
\* has no child yet (afterwards it is some child's tail, which nothing
\* reads); outside the root only white space is allowed.
RECURSIVE ParseFrom(_, _, _, _, _)
ParseFrom(s, i, nodes, stack, closed) ==
    IF i > Len(s)
    THEN IF closed THEN [ok |-> TRUE, tree |-> nodes, e |-> ""]
         ELSE ParseError("no element found", i - 1)
    ELSE LET c == s[i]
             top == IF stack = <<>> THEN 0 ELSE stack[Len(stack)]
         IN  IF IsStartTag(c) \/ IsEmptyTag(c)
             THEN IF closed
                  THEN ParseError("junk after document element", i - 1)
                  ELSE ParseFrom(s, i + 1, Append(nodes, ElementOf(c, top)),
                                 IF IsStartTag(c)
                                 THEN Append(stack, Len(nodes) + 1) ELSE stack,
                                 IsEmptyTag(c) /\ stack = <<>>)
             ELSE IF IsEndTag(c)
             THEN IF top = 0 \/ CloseTag(nodes[top].tag) # c
                  THEN ParseError(IF top = 0 THEN "syntax error"
                                  ELSE "mismatched tag", i - 1)
                  ELSE ParseFrom(s, i + 1, nodes,
                                 SubSeq(stack, 1, Len(stack) - 1),
                                 Len(stack) = 1)
             ELSE IF top = 0
             THEN IF IsSpace(c)
                  THEN ParseFrom(s, i + 1, nodes, stack, closed)
                  ELSE ParseError(IF closed THEN "junk after document element"
                                  ELSE "syntax error", i - 1)
             ELSE IF top = Len(nodes)
             THEN ParseFrom(s, i + 1,
                            [nodes EXCEPT ![top].text = Append(@, c)],
                            stack, closed)
             ELSE ParseFrom(s, i + 1, nodes, stack, closed)

\* ET.fromstring(text): the tree, or a ParseError with its diagnostic.
fromstring(s) == ParseFrom(s, 1, <<>>, <<>>, FALSE)

\* Texts that are not well-formed documents.
Malformed ==
    {<<>>, <<Chr.D>>, <<Chr.D, Chr.p>>, <<Chr.D, Chr.d, Chr.x>>,
     <<Chr.x>>, <<Chr.p>>}

(***************************************************************************)
(* str.encode('utf-8') and bytes.decode('utf-8').                          *)
(***************************************************************************)
Utf8EncodeChar(cp) ==
    IF cp < 128 THEN <<cp>>
    ELSE IF cp < 2048 THEN <<192 + cp \div 64, 128 + (cp % 64)>>
    ELSE IF cp < 65536
    THEN <<224 + cp \div 4096, 128 + ((cp \div 64) % 64), 128 + (cp % 64)>>
    ELSE <<240 + cp \div 262144, 128 + ((cp \div 4096) % 64),
           128 + ((cp \div 64) % 64), 128 + (cp % 64)>>

\* The encoding of a text is the concatenation of those of its characters
\* (computed by halves).
RECURSIVE Utf8Encode(_)
Utf8Encode(text) ==
    IF Len(text) = 0 THEN <<>>
    ELSE IF Len(text) = 1 THEN Utf8EncodeChar(text[1])
    ELSE Utf8Encode(SubSeq(text, 1, Len(text) \div 2))
             \o Utf8Encode(SubSeq(text, Len(text) \div 2 + 1, Len(text)))

IsContinuation(b) == 128 <= b /\ b <= 191

UnicodeDecodeError(reason, pos) ==
    [ok |-> FALSE, text |-> <<>>,
     e |-> "'utf-8' codec can't decode byte in position " \o ToString(pos)
               \o ": " \o reason]

\* The number of bytes of the character a lead byte starts, 0 when the
\* byte cannot start one.
Utf8Width(b) ==
    IF b < 128 THEN 1
    ELSE IF 194 <= b /\ b <= 223 THEN 2
    ELSE IF 224 <= b /\ b <= 239 THEN 3
    ELSE IF 240 <= b /\ b <= 244 THEN 4
    ELSE 0

\* Whether b1 can follow the lead byte b0 (no overlong form, no surrogate,
\* nothing above U+10FFFF).
SecondByteOk(b0, b1) ==
    /\ IsContinuation(b1)
    /\ (b0 = 224 => b1 >= 160)
    /\ (b0 = 237 => b1 <= 159)
    /\ (b0 = 240 => b1 >= 144)
    /\ (b0 = 244 => b1 <= 143)

\* The character that starts at byte i of b: its code point and its width,
\* or the reason why there is none.
Utf8DecodeChar(b, i) ==
    LET w == Utf8Width(b[i])
        bad(reason) == [ok |-> FALSE, cp |-> 0, width |-> 0, reason |-> reason]
        good(cp) == [ok |-> TRUE, cp |-> cp, width |-> w, reason |-> ""]
    IN  CASE w = 0 -> bad("invalid start byte")
          [] w = 1 -> good(b[i])
          [] w > 1 /\ i + 1 > Len(b) -> bad("unexpected end of data")
          [] w > 1 /\ i + 1 <= Len(b) /\ ~SecondByteOk(b[i], b[i + 1]) ->
                bad("invalid continuation byte")
          [] w > 1 /\ i + 1 <= Len(b) /\ SecondByteOk(b[i], b[i + 1])
                   /\ i + w - 1 > Len(b) -> bad("unexpected end of data")
          [] w > 1 /\ i + w - 1 <= Len(b) /\ SecondByteOk(b[i], b[i + 1])
                   /\ (\E k \in 2..(w - 1) : ~IsContinuation(b[i + k])) ->
                bad("invalid continuation byte")
          [] OTHER ->
                good(IF w = 2 THEN (b[i] - 192) * 64 + (b[i + 1] - 128)
                     ELSE IF w = 3
                     THEN (b[i] - 224) * 4096 + (b[i + 1] - 128) * 64
                              + (b[i + 2] - 128)
                     ELSE (b[i] - 240) * 262144 + (b[i + 1] - 128) * 4096
                              + (b[i + 2] - 128) * 64 + (b[i + 3] - 128))

\* The positions at which the characters of b[from..to] start, as far as
\* they decode; computed by halves: the characters of the first half, then
\* those from where the first half's last character ends.
RECURSIVE Utf8Scan(_, _, _)
Utf8Scan(b, from, to) ==
    IF from > to THEN [chars |-> <<>>, next |-> from, ok |-> TRUE]
    ELSE IF from = to
    THEN LET c == Utf8DecodeChar(b, from)
         IN  IF c.ok THEN [chars |-> <<c.cp>>, next |-> from + c.width, ok |-> TRUE]
             ELSE [chars |-> <<>>, next |-> from, ok |-> FALSE]
    ELSE LET mid == (from + to) \div 2
             left == Utf8Scan(b, from, mid)
             right == Utf8Scan(b, left.next, to)
         IN  IF ~left.ok THEN left
             ELSE [chars |-> left.chars \o right.chars, next |-> right.next,
                   ok |-> right.ok]

Utf8DecodeFrom(b, i, text) ==
    LET scan == Utf8Scan(b, i, Len(b))
    IN  IF scan.ok THEN [ok |-> TRUE, text |-> text \o scan.chars, e |-> ""]
        ELSE UnicodeDecodeError(Utf8DecodeChar(b, scan.next).reason, scan.next - 1)

\* A variant of the decoding that reads each byte as one character
\* (bytes.decode('latin-1')).
Latin1Decode(b) == [ok |-> TRUE, text |-> b, e |-> ""]

Utf8Decode(b) == Utf8DecodeFrom(b, 1, <<>>)

(***************************************************************************)
(* zipfile.ZipFile on an in-memory buffer.  An archive being written is    *)
(* the sequence of its entries, [name, data], in the order written.  The   *)
(* bytes of a closed archive are, for each entry, the local file header    *)
(* signature "PK" 3 4, the name (as its number in PartNames), the length   *)
(* of the data and the data, and then the end-of-central-directory         *)
(* signature "PK" 5 6 and the number of entries.  Compression is left out: *)
(* what is stored is what is read.                                         *)
(***************************************************************************)
PartNames ==
    <<"[Content_Types].xml", "_rels/.rels", "word/_rels/document.xml.rels",
      "word/styles.xml", "word/document.xml", "docProps/app.xml">>

NameId(name) == CHOOSE k \in DOMAIN PartNames : PartNames[k] = name

LocalHeader == <<80, 75, 3, 4>>
EndOfCentralDirectory == <<80, 75, 5, 6>>

\* ZipFile.writestr(name, data) with data of type str: the text is encoded
\* as UTF-8 and the entry appended (a name written before is not replaced).
writestr(entries, name, text) ==
    Append(entries, [name |-> name, data |-> Utf8Encode(text)])

\* ZipFile.writestr(name, data) with data of type bytes.
writebytes(entries, name, data) ==
    Append(entries, [name |-> name, data |-> data])

\* ZipFile.close() and the buffer's bytes (main.py:157-158).
RECURSIVE EntryBytes(_)
EntryBytes(entries) ==
    IF entries = <<>> THEN <<>>
    ELSE LocalHeader \o <<NameId(Head(entries).name), Len(Head(entries).data)>>
             \o Head(entries).data \o EntryBytes(Tail(entries))

ZipBytes(entries) ==
    EntryBytes(entries) \o EndOfCentralDirectory \o <<Len(entries)>>

HasAt(b, i, sig) ==
    /\ i + Len(sig) - 1 <= Len(b)
    /\ SubSeq(b, i, i + Len(sig) - 1) = sig

BadZipFile == [ok |-> FALSE, entries |-> <<>>]

\* ZipFile(io.BytesIO(b), 'r'): the entries, or BadZipFile.
RECURSIVE ZipOpenFrom(_, _, _)
ZipOpenFrom(b, i, entries) ==
    IF HasAt(b, i, EndOfCentralDirectory)
    THEN IF Len(b) = i + 4 /\ b[i + 4] = Len(entries)
         THEN [ok |-> TRUE, entries |-> entries]
         ELSE BadZipFile
    ELSE IF /\ HasAt(b, i, LocalHeader)
            /\ i + 5 <= Len(b)
            /\ b[i + 4] \in DOMAIN PartNames
            /\ i + 5 + b[i + 5] <= Len(b)
    THEN ZipOpenFrom(b, i + 6 + b[i + 5],
                     Append(entries,
                            [name |-> PartNames[b[i + 4]],
                             data |-> SubSeq(b, i + 6, i + 5 + b[i + 5])]))
    ELSE BadZipFile

ZipOpen(b) == ZipOpenFrom(b, 1, <<>>)

\* ZipFile.read(name): the data of the last entry of that name, or
\* KeyError when there is none.
ZipRead(entries, name) ==
    LET at == {k \in DOMAIN entries : entries[k].name = name}
    IN  IF at = {} THEN [ok |-> FALSE, data |-> <<>>]
        ELSE [ok |-> TRUE,
              data |-> entries[CHOOSE k \in at : \A j \in at : j <= k].data]

(***************************************************************************)
(* Exceptions and the outcome of a call.                                   *)
(***************************************************************************)
Exception(type, status_code, detail) ==
    [type |-> type, status_code |-> status_code, detail |-> detail]

HTTPException(status_code, detail) ==
    Exception("HTTPException", status_code, detail)

NoException == Exception("", 0, "")

Return(value) == [raised |-> FALSE, value |-> value, exc |-> NoException]
Raise(exc) == [raised |-> TRUE, value |-> <<>>, exc |-> exc]

(***************************************************************************)
(* DocxProcessor.docx_to_xml (main.py:91-104).                             *)
(***************************************************************************)
\* The try block (main.py:94-97): the text, or the exception raised.
docx_to_xml_try(docx_content) ==
    LET docx_zip == ZipOpen(docx_content)
        part == ZipRead(docx_zip.entries, "word/document.xml")
        decoded == Utf8Decode(part.data)
    IN  IF ~docx_zip.ok THEN Raise(Exception("BadZipFile", 0, "File is not a zip file"))
        ELSE IF ~part.ok
        THEN Raise(Exception("KeyError", 0, "There is no item named 'word/document.xml' in the archive"))
        ELSE IF ~decoded.ok THEN Raise(Exception("UnicodeDecodeError", 0, decoded.e))
        ELSE Return(decoded.text)

\* A variant of the except clauses without the clause for KeyError.
docx_to_xml_except_no_keyerror(e) ==
    IF e.type = "BadZipFile"
    THEN HTTPException(400, "Invalid DOCX file format")
    ELSE HTTPException(500, "Error processing DOCX file: " \o e.detail)

\* The except clauses (main.py:98-104).
docx_to_xml_except(e) ==
    IF e.type = "BadZipFile"
    THEN HTTPException(400, "Invalid DOCX file format")
    ELSE IF e.type = "KeyError"
    THEN HTTPException(400, "Invalid DOCX structure - missing document.xml")
    ELSE HTTPException(500, "Error processing DOCX file: " \o e.detail)

docx_to_xml(docx_content) ==
    LET body == docx_to_xml_try(docx_content)
    IN  IF body.raised THEN Raise(docx_to_xml_except(body.exc)) ELSE body

(***************************************************************************)
(* DocxProcessor.xml_to_docx (main.py:107-164).  The four fixed parts are  *)
(* abbreviated to short texts.                                             *)
(***************************************************************************)
\* main.py:115-121, "<Types/>"
content_types == <<60, 84, 121, 112, 101, 115, 47, 62>>
\* main.py:125-128, "<Rels/>"
main_rels == <<60, 82, 101, 108, 115, 47, 62>>
\* main.py:132-135, "<rels/>"
doc_rels == <<60, 114, 101, 108, 115, 47, 62>>
\* main.py:139-151, "<w:styles/>"
styles == <<60, 119, 58, 115, 116, 121, 108, 101, 115, 47, 62>>

\* A variant of the try block that parses the text before packing it, as
\* the except clause for ET.ParseError would have it.
xml_to_docx_try_parsing(xml_content) ==
    LET parsed == fromstring(xml_content)
        z1 == writestr(<<>>, "[Content_Types].xml", content_types)
        z2 == writestr(z1, "_rels/.rels", main_rels)
        z3 == writestr(z2, "word/_rels/document.xml.rels", doc_rels)
        z4 == writestr(z3, "word/styles.xml", styles)
        z5 == writestr(z4, "word/document.xml", xml_content)
    IN  IF ~parsed.ok THEN Raise(Exception("ParseError", 0, parsed.e))
        ELSE Return(ZipBytes(z5))

\* The try block (main.py:111-158).  Nothing in it parses the text, so the
\* except clause for ET.ParseError (main.py:160-161) never runs; the text
\* of a request is decoded UTF-8, so its encoding cannot fail either.
xml_to_docx_try(xml_content) ==
    LET z1 == writestr(<<>>, "[Content_Types].xml", content_types)
        z2 == writestr(z1, "_rels/.rels", main_rels)
        z3 == writestr(z2, "word/_rels/document.xml.rels", doc_rels)
        z4 == writestr(z3, "word/styles.xml", styles)
        z5 == writestr(z4, "word/document.xml", xml_content)
    IN  Return(ZipBytes(z5))

\* The except clauses (main.py:160-164).
xml_to_docx_except(e) ==
    IF e.type = "ParseError"
    THEN HTTPException(400, "Invalid XML format: " \o e.detail)
    ELSE HTTPException(500, "Error creating DOCX file: " \o e.detail)

xml_to_docx(xml_content) ==
    LET body == xml_to_docx_try(xml_content)
    IN  IF body.raised THEN Raise(xml_to_docx_except(body.exc)) ELSE body

(***************************************************************************)
(* State.                                                                  *)
(***************************************************************************)
VARIABLES
    \* extract_highlighted_text
    document_xml,       \* its argument
    root,               \* the parsed tree (<<>> before the parse)
    paragraphs,         \* root.findall('.//w:p')
    para_idx,           \* the outer loop's index
    runs,               \* paragraph.findall('.//w:r')
    run_idx,            \* the inner loop's index
    highlighted_texts,  \* the list being built
    xpc,                \* "idle", "call", "for_paragraph", "for_run",
                        \* "returned", "raised"
    xexc,               \* the HTTPException raised, NoException otherwise
    \* the two conversions
    xml_content,        \* a document text
    docx_content,       \* the bytes of a package
    given,              \* what the input of the conversions was made from
    cpc,                \* "idle", "text", "package", "buffer", "xml", "failed"
    cret,               \* the outcome of the last conversion
    \* a request
    endpoint,           \* the handler that serves it
    file,               \* the upload: filename and bytes
    content,            \* the bytes read from the upload
    pc,                 \* the handler's position
    calls,              \* the DocxProcessor operations called so far
    stage_exc,          \* the exception a stage of the handler raised
    response            \* what the handler returned or raised

xvars == <<document_xml, root, paragraphs, para_idx, runs, run_idx,
           highlighted_texts, xpc, xexc>>
cvars == <<xml_content, docx_content, given, cpc, cret>>
avars == <<endpoint, file, content, pc, calls, stage_exc, response>>
vars == <<xvars, cvars, avars>>

(***************************************************************************)
(* DocxProcessor.extract_highlighted_text (main.py:56-88), one action per  *)
(* step: the parse and the paragraph search, an iteration of the outer     *)
(* loop, an iteration of the inner loop.                                   *)
(***************************************************************************)
\* The record the inner loop appends for a run (main.py:73-79).
HighlightRecord(t, run, pi, ri) ==
    [text |-> strip(extract_text_from_run(t, run)),
     highlight_color |-> get_highlight_color(t, run),
     paragraph_index |-> pi,
     run_index |-> ri]

\* A variant of the test that does not trim the text.
EmitsUntrimmed(t, run) ==
    is_highlighted(t, run) /\ extract_text_from_run(t, run) # <<>>

\* A variant of the append that puts the record first.
PrependRecord(list, rec) == <<rec>> \o list

\* Whether the inner loop appends a record for the run (main.py:70-72).
Emits(t, run) ==
    is_highlighted(t, run) /\ strip(extract_text_from_run(t, run)) # <<>>

\* list.append (main.py:74).
AppendRecord(list, rec) == Append(list, rec)

\* main.py:59-63, and 83-85 when the text does not parse.
ExtractParse ==
    /\ xpc = "call"
    /\ LET parsed == fromstring(document_xml)
       IN  IF parsed.ok
           THEN /\ root' = parsed.tree
                /\ paragraphs' = findall(parsed.tree, 1, "w:p")
                /\ xpc' = "for_paragraph"
                /\ xexc' = xexc
           ELSE /\ xpc' = "raised"
                /\ xexc' = HTTPException(400, "Invalid XML format: " \o parsed.e)
                /\ UNCHANGED <<root, paragraphs>>
    /\ highlighted_texts' = <<>>
    /\ para_idx' = 0
    /\ UNCHANGED <<document_xml, runs, run_idx, cvars, avars>>

\* main.py:65-67: the next paragraph, or the return at 81.
ExtractParagraph ==
    /\ xpc = "for_paragraph"
    /\ IF para_idx < Len(paragraphs)
       THEN /\ runs' = findall(root, paragraphs[para_idx + 1], "w:r")
            /\ run_idx' = 0
            /\ xpc' = "for_run"
       ELSE /\ xpc' = "returned"
            /\ UNCHANGED <<runs, run_idx>>
    /\ UNCHANGED <<document_xml, root, paragraphs, para_idx,
                   highlighted_texts, xexc, cvars, avars>>

\* main.py:69-79: the next run of the paragraph, or the end of the inner
\* loop.
ExtractRun ==
    /\ xpc = "for_run"
    /\ IF run_idx < Len(runs)
       THEN /\ highlighted_texts' =
                  IF Emits(root, runs[run_idx + 1])
                  THEN AppendRecord(highlighted_texts,
                                    HighlightRecord(root, runs[run_idx + 1],
                                                    para_idx, run_idx))
                  ELSE highlighted_texts
            /\ run_idx' = run_idx + 1
            /\ UNCHANGED <<para_idx, xpc>>
       ELSE /\ para_idx' = para_idx + 1
            /\ xpc' = "for_paragraph"
            /\ UNCHANGED <<highlighted_texts, run_idx>>
    /\ UNCHANGED <<document_xml, root, paragraphs, runs, xexc, cvars, avars>>

extract_highlighted_text == ExtractParse \/ ExtractParagraph \/ ExtractRun

(***************************************************************************)
(* The state of the parts of the program that a specification leaves out.  *)
(***************************************************************************)
NoGiven == [kind |-> "none", entries |-> <<>>]
NoFile == [filename |-> [stem |-> "", suffix |-> ""], content |-> <<>>]

Body(success, filename, count, records, bytes, media_type) ==
    [success |-> success, filename |-> filename,
     highlighted_text_count |-> count, highlighted_texts |-> records,
     content |-> bytes, media_type |-> media_type]

NoBody == Body(FALSE, "", 0, <<>>, <<>>, "")

\* What a handler hands to the framework: a body, or an exception.
Respond(body) == [raised |-> FALSE, exc |-> NoException, body |-> body]
Fail(exc) == [raised |-> TRUE, exc |-> exc, body |-> NoBody]
NoResponse == [raised |-> FALSE, exc |-> NoException, body |-> NoBody]

WalkIdle ==
    /\ document_xml = <<>>
    /\ root = <<>>
    /\ paragraphs = <<>>
    /\ para_idx = 0
    /\ runs = <<>>
    /\ run_idx = 0
    /\ highlighted_texts = <<>>
    /\ xpc = "idle"
    /\ xexc = NoException

ConversionsIdle ==
    /\ xml_content = <<>>
    /\ docx_content = <<>>
    /\ given = NoGiven
    /\ cpc = "idle"
    /\ cret = Return(<<>>)

RequestIdle ==
    /\ endpoint = "none"
    /\ file = NoFile
    /\ content = <<>>
    /\ pc = "idle"
    /\ calls = <<>>
    /\ stage_exc = NoException
    /\ response = NoResponse

(***************************************************************************)
(* SpecExtract: extract_highlighted_text on every document text of the     *)
(* bounded set.                                                            *)
(***************************************************************************)
InitExtract ==
    /\ \/ \E n \in TreeSizes : \E t \in TreesOfSize(n) :
              document_xml = Serialize(t)
       \/ document_xml \in Malformed
    /\ root = <<>>
    /\ paragraphs = <<>>
    /\ para_idx = 0
    /\ runs = <<>>
    /\ run_idx = 0
    /\ highlighted_texts = <<>>
    /\ xpc = "call"
    /\ xexc = NoException
    /\ ConversionsIdle
    /\ RequestIdle

NextExtract == ExtractParse \/ ExtractParagraph \/ ExtractRun

SpecExtract == InitExtract /\ [][NextExtract]_vars

(***************************************************************************)
(* SpecCodec: the two conversions as functions.  xml_to_docx is applied to *)
(* every text of the bounded set and docx_to_xml to its result; docx_to_xml*)
(* is also applied to archives made of arbitrary entries and to buffers    *)
(* that are no archive.                                                    *)
(***************************************************************************)
Alphabet == {Chr.D, Chr.d, Chr.x, Chr.eacute, Chr.euro}

TextsOfLength(n) == [1..n -> Alphabet]

\* The data of a part: a document, a text cut inside a character, bytes
\* that start no character.
PartData ==
    {Utf8Encode(<<Chr.D, Chr.eacute, Chr.d>>), <<195>>, <<255>>, <<Chr.x, 169>>}

Entries ==
    [name : {"word/document.xml", "docProps/app.xml"}, data : PartData]

EntryListsOfLength(n) == [1..n -> Entries]

\* Buffers that are no archive: empty, plain text, an archive without its
\* last byte, an end-of-central-directory record that counts an entry
\* more than there is.
NotArchives(n) ==
    {<<>>, <<Chr.x>>, Utf8Encode(<<Chr.D, Chr.d>>), LocalHeader}
    \cup {SubSeq(ZipBytes(e), 1, Len(ZipBytes(e)) - 1) : e \in EntryListsOfLength(n)}
    \cup {EntryBytes(e) \o EndOfCentralDirectory \o <<Len(e) + 1>> :
              e \in EntryListsOfLength(n)}

InitCodec ==
    /\ WalkIdle
    /\ RequestIdle
    /\ cret = Return(<<>>)
    /\ \/ /\ \E n \in 0..MaxLen : xml_content \in TextsOfLength(n)
          /\ docx_content = <<>>
          /\ given = [kind |-> "text", entries |-> <<>>]
          /\ cpc = "text"
       \/ /\ \E n \in 0..MaxParts : \E e \in EntryListsOfLength(n) :
                /\ given = [kind |-> "archive", entries |-> e]
                /\ docx_content = ZipBytes(e)
          /\ xml_content = <<>>
          /\ cpc = "buffer"
       \/ /\ \E n \in 0..MaxParts : docx_content \in NotArchives(n)
          /\ given = [kind |-> "garbage", entries |-> <<>>]
          /\ xml_content = <<>>
          /\ cpc = "buffer"

\* A call of xml_to_docx on the text.
CallXmlToDocx ==
    /\ cpc = "text"
    /\ cret' = xml_to_docx(xml_content)
    /\ IF cret'.raised
       THEN cpc' = "failed" /\ docx_content' = docx_content
       ELSE cpc' = "package" /\ docx_content' = cret'.value
    /\ UNCHANGED <<xml_content, given, xvars, avars>>

\* A call of docx_to_xml on the buffer.
CallDocxToXml ==
    /\ cpc \in {"package", "buffer"}
    /\ cret' = docx_to_xml(docx_content)
    /\ cpc' = IF cret'.raised THEN "failed" ELSE "xml"
    /\ UNCHANGED <<xml_content, docx_content, given, xvars, avars>>

NextCodec == CallXmlToDocx \/ CallDocxToXml

SpecCodec == InitCodec /\ [][NextCodec]_vars

(***************************************************************************)
(* The request handlers (main.py:166-287).  A filename is a stem and a     *)
(* suffix, "stem.suffix".                                                  *)
(***************************************************************************)
\* str.lower() of a suffix.
lower(suffix) ==
    CASE suffix = "DOCX" -> "docx"
      [] suffix = "Xml" -> "xml"
      [] OTHER -> suffix

FullName(filename) == filename.stem \o "." \o filename.suffix

\* A variant of the except clauses without "except HTTPException: raise".
submit_docx_except_wrapping(e) ==
    HTTPException(500, "Internal server error: " \o e.detail)

\* The except clauses of submit_docx (main.py:202-206) and of convert_xml
\* (main.py:240-244): an HTTPException goes on as it is, anything else
\* becomes a 500.
submit_docx_except(e) ==
    IF e.type = "HTTPException" THEN e
    ELSE HTTPException(500, "Internal server error: " \o e.detail)

convert_xml_except(e) ==
    IF e.type = "HTTPException" THEN e
    ELSE HTTPException(500, "Internal server error: " \o e.detail)

\* The except clauses of convert_docx (main.py:281-287).
convert_docx_except(e) ==
    IF e.type = "UnicodeDecodeError"
    THEN HTTPException(400, "Invalid XML file encoding")
    ELSE IF e.type = "HTTPException" THEN e
    ELSE HTTPException(500, "Internal server error: " \o e.detail)

\* The handler ends by raising exc out of its try block.
EndRaising(exc, handled) ==
    /\ stage_exc' = exc
    /\ response' = Fail(handled)
    /\ pc' = "done"

\* main.py:175-176, 217-218, 255-256: the check of the file type, before
\* the try block.  (The content type is only logged, main.py:178-179.)
ValidateFileType(ep, suffix, detail) ==
    /\ endpoint = ep
    /\ pc = "start"
    /\ IF lower(file.filename.suffix) # suffix
       THEN EndRaising(HTTPException(400, detail), HTTPException(400, detail))
       ELSE pc' = "read" /\ UNCHANGED <<stage_exc, response>>
    /\ UNCHANGED <<endpoint, file, content, calls, xvars, cvars>>

\* main.py:183-186, 222-225, 260-263: the read and the check for an empty
\* upload; handled is what the handler's except clauses make of EmptyFile.
EmptyFile == HTTPException(400, "Empty file uploaded")

\* A variant of the read without the check for an empty upload.
ReadUploadUnchecked(ep, handled, next) ==
    /\ endpoint = ep
    /\ pc = "read"
    /\ content' = file.content
    /\ pc' = next
    /\ UNCHANGED <<stage_exc, response>>
    /\ UNCHANGED <<endpoint, file, calls, xvars, cvars>>

ReadUpload(ep, handled, next) ==
    /\ endpoint = ep
    /\ pc = "read"
    /\ content' = file.content
    /\ IF Len(file.content) = 0
       THEN EndRaising(EmptyFile, handled)
       ELSE pc' = next /\ UNCHANGED <<stage_exc, response>>
    /\ UNCHANGED <<endpoint, file, calls, xvars, cvars>>

-----------------------------------------------------------------------------
SubmitValidate ==
    ValidateFileType("submit_docx", "docx", "File must be a DOCX document")

SubmitRead == ReadUpload("submit_docx", submit_docx_except(EmptyFile), "docx_to_xml")

\* main.py:189-192: docx_to_xml, and the call of extract_highlighted_text
\* on its result.
SubmitDocxToXml ==
    /\ endpoint = "submit_docx"
    /\ pc = "docx_to_xml"
    /\ LET r == docx_to_xml(content)
       IN  IF r.raised
           THEN /\ EndRaising(r.exc, submit_docx_except(r.exc))
                /\ calls' = Append(calls, "docx_to_xml")
                /\ UNCHANGED <<document_xml, xpc>>
           ELSE /\ document_xml' = r.value
                /\ xpc' = "call"
                /\ pc' = "extract"
                /\ calls' = calls \o <<"docx_to_xml", "extract_highlighted_text">>
                /\ UNCHANGED <<stage_exc, response>>
    /\ UNCHANGED <<endpoint, file, content, root, paragraphs, para_idx, runs,
                   run_idx, highlighted_texts, xexc, cvars>>

\* main.py:192-200: extract_highlighted_text has returned or raised.  (The
\* envelope's processed_at, the time of the answer, is left out.)
SubmitRespond ==
    /\ endpoint = "submit_docx"
    /\ pc = "extract"
    /\ xpc \in {"returned", "raised"}
    /\ IF xpc = "raised"
       THEN EndRaising(xexc, submit_docx_except(xexc))
       ELSE /\ response' = Respond(Body(TRUE, FullName(file.filename),
                                        Len(highlighted_texts),
                                        highlighted_texts, <<>>,
                                        "application/json"))
            /\ pc' = "done"
            /\ UNCHANGED stage_exc
    /\ UNCHANGED <<endpoint, file, content, calls, xvars, cvars>>

submit_docx ==
    SubmitValidate \/ SubmitRead \/ SubmitDocxToXml \/ SubmitRespond

-----------------------------------------------------------------------------
ConvertXmlValidate ==
    ValidateFileType("convert_xml", "docx", "File must be a DOCX document")

ConvertXmlRead == ReadUpload("convert_xml", convert_xml_except(EmptyFile), "docx_to_xml")

\* main.py:228-238
ConvertXmlRespond ==
    /\ endpoint = "convert_xml"
    /\ pc = "docx_to_xml"
    /\ calls' = Append(calls, "docx_to_xml")
    /\ LET r == docx_to_xml(content)
       IN  IF r.raised
           THEN /\ EndRaising(r.exc, convert_xml_except(r.exc))
                /\ UNCHANGED xml_content
           ELSE /\ xml_content' = r.value
                /\ response' = Respond(Body(FALSE, file.filename.stem \o ".xml",
                                            0, <<>>, r.value, "application/xml"))
                /\ pc' = "done"
                /\ UNCHANGED stage_exc
    /\ UNCHANGED <<endpoint, file, content, xvars, docx_content, given, cpc, cret>>

convert_xml == ConvertXmlValidate \/ ConvertXmlRead \/ ConvertXmlRespond

-----------------------------------------------------------------------------
ConvertDocxValidate ==
    ValidateFileType("convert_docx", "xml", "File must be an XML document")

ConvertDocxRead == ReadUpload("convert_docx", convert_docx_except(EmptyFile), "decode")

\* main.py:266
ConvertDocxDecode ==
    /\ endpoint = "convert_docx"
    /\ pc = "decode"
    /\ LET decoded == Utf8Decode(content)
       IN  IF ~decoded.ok
           THEN /\ EndRaising(Exception("UnicodeDecodeError", 0, decoded.e),
                    convert_docx_except(Exception("UnicodeDecodeError", 0, decoded.e)))
                /\ UNCHANGED xml_content
           ELSE /\ xml_content' = decoded.text
                /\ pc' = "xml_to_docx"
                /\ UNCHANGED <<stage_exc, response>>
    /\ UNCHANGED <<endpoint, file, content, calls, xvars, docx_content, given,
                   cpc, cret>>

\* main.py:269-279
ConvertDocxRespond ==
    /\ endpoint = "convert_docx"
    /\ pc = "xml_to_docx"
    /\ calls' = Append(calls, "xml_to_docx")
    /\ LET r == xml_to_docx(xml_content)
       IN  IF r.raised
           THEN /\ EndRaising(r.exc, convert_docx_except(r.exc))
                /\ UNCHANGED docx_content
           ELSE /\ docx_content' = r.value
                /\ response' = Respond(Body(FALSE, file.filename.stem \o ".docx",
                                            0, <<>>, r.value,
                    "application/vnd.openxmlformats-officedocument.wordprocessingml.document"))
                /\ pc' = "done"
                /\ UNCHANGED stage_exc
    /\ UNCHANGED <<endpoint, file, content, xvars, xml_content, given, cpc, cret>>

convert_docx ==
    ConvertDocxValidate \/ ConvertDocxRead \/ ConvertDocxDecode
        \/ ConvertDocxRespond

(***************************************************************************)
(* Spec: one request to one of the three handlers.                         *)
(***************************************************************************)
\* Section 8's scenario: paragraph 0 with a plain run and a run highlighted
\* green, paragraph 1 with a highlighted run of white space only.
ScenarioDocument ==
    <<Chr.D, Chr.P, Chr.R, Chr.T, Chr.x, Chr.t, Chr.r,
                    Chr.R, Chr.G, Chr.T, Chr.sp, Chr.eacute, Chr.x, Chr.sp, Chr.t, Chr.r, Chr.p,
             Chr.P, Chr.R, Chr.H, Chr.T, Chr.sp, Chr.t, Chr.r, Chr.p, Chr.d>>

\* A highlighted run in a paragraph inside a paragraph.
NestedDocument ==
    <<Chr.D, Chr.P, Chr.P, Chr.R, Chr.H, Chr.T, Chr.x, Chr.t, Chr.r, Chr.p,
      Chr.p, Chr.d>>

Documents ==
    {ScenarioDocument, NestedDocument, <<Chr.D, Chr.d>>,
     <<Chr.D, Chr.P, Chr.d>>, <<Chr.D, Chr.d, Chr.x>>, <<>>}

Filenames ==
    [stem : {"report"}, suffix : {"docx", "DOCX", "xml", "Xml", "txt"}]

\* The bytes a client uploads: nothing, the bytes of a document text, bytes
\* that are no UTF-8, a package made by xml_to_docx, a package with other
\* parts around the document, with a document that is no UTF-8, without a
\* document, and a package cut short.
Uploads ==
    {Utf8Encode(d) : d \in Documents}
    \cup {<<255>>, <<Chr.x, 195>>}
    \cup {xml_to_docx(d).value : d \in Documents}
    \cup {ZipBytes(<<[name |-> "docProps/app.xml", data |-> <<Chr.x>>],
                     [name |-> "word/document.xml", data |-> Utf8Encode(d)]>>) :
              d \in Documents}
    \cup {ZipBytes(<<[name |-> "word/document.xml", data |-> <<255>>]>>),
          ZipBytes(<<[name |-> "docProps/app.xml", data |-> <<Chr.x>>]>>),
          ZipBytes(<<>>),
          EntryBytes(<<[name |-> "word/document.xml", data |-> <<Chr.x>>]>>)}

Init ==
    /\ WalkIdle
    /\ ConversionsIdle
    /\ endpoint \in {"submit_docx", "convert_xml", "convert_docx"}
    /\ file \in [filename : Filenames, content : Uploads]
    /\ content = <<>>
    /\ pc = "start"
    /\ calls = <<>>
    /\ stage_exc = NoException
    /\ response = NoResponse

Next ==
    \/ submit_docx
    \/ convert_xml
    \/ convert_docx
    \/ extract_highlighted_text

Spec == Init /\ [][Next]_vars

(***************************************************************************)
(* The vocabulary of the claims about the walk, stated on the tree itself  *)
(* and not through the searches of the code.                               *)
(***************************************************************************)
\* Whether element k lies strictly below element a.
RECURSIVE IsBelow(_, _, _)
IsBelow(t, k, a) ==
    /\ t[k].parent # 0
    /\ (t[k].parent = a \/ IsBelow(t, t[k].parent, a))

\* The 0-based position of k among the members of S, in document order.
Rank(S, k) == Cardinality({x \in S : x < k})

\* The paragraphs below the root, and the runs below a paragraph.
ParagraphsBelowRoot(t) == {k \in DOMAIN t : t[k].tag = "w:p" /\ IsBelow(t, k, 1)}
RunsBelow(t, a) == {k \in DOMAIN t : t[k].tag = "w:r" /\ IsBelow(t, k, a)}
MarkersBelow(t, r) ==
    {k \in DOMAIN t : t[k].tag = "w:highlight" /\ IsBelow(t, k, r)}

\* The texts of the text elements below r, concatenated in document order.
RECURSIVE TextBelowFrom(_, _, _)
TextBelowFrom(t, r, k) ==
    IF k > Len(t) THEN <<>>
    ELSE (IF t[k].tag = "w:t" /\ IsBelow(t, k, r) THEN t[k].text ELSE <<>>)
             \o TextBelowFrom(t, r, k + 1)

TextBelow(t, r) == TextBelowFrom(t, r, 1)

\* A text without its leading and trailing spaces.
Trimmed(s) ==
    LET inked == {k \in DOMAIN s : s[k] # Chr.sp}
    IN  IF inked = {} THEN <<>>
        ELSE SubSeq(s, CHOOSE k \in inked : \A j \in inked : k <= j,
                       CHOOSE k \in inked : \A j \in inked : k >= j)

\* A run that must be reported: a marker below it, and ink in its text.
Reportable(t, r) == MarkersBelow(t, r) # {} /\ Trimmed(TextBelow(t, r)) # <<>>

\* The run element a record's indices designate.
RunOfRecord(t, rec) ==
    LET a == CHOOSE k \in ParagraphsBelowRoot(t) :
                 Rank(ParagraphsBelowRoot(t), k) = rec.paragraph_index
    IN  CHOOSE k \in RunsBelow(t, a) : Rank(RunsBelow(t, a), k) = rec.run_index

Range(seq) == {seq[k] : k \in DOMAIN seq}

(***************************************************************************)
(* C3.  When extract_highlighted_text returns, there is a record with      *)
(* paragraph_index i and run_index j exactly when the j-th run below the   *)
(* i-th paragraph below the root has a highlight marker below it and a     *)
(* text that is not empty once trimmed, and the record's text is that      *)
(* trimmed text.  A highlighted run of white space only is not reported.   *)
(***************************************************************************)
C3_EmitsExactlyReportableRuns ==
    xpc = "returned" =>
        {<<rec.paragraph_index, rec.run_index, rec.text>> :
            rec \in Range(highlighted_texts)}
        = {<<Rank(ParagraphsBelowRoot(root), a), Rank(RunsBelow(root, a), r),
             Trimmed(TextBelow(root, r))>> :
            <<a, r>> \in {ar \in ParagraphsBelowRoot(root) \X DOMAIN root :
                            /\ ar[2] \in RunsBelow(root, ar[1])
                            /\ Reportable(root, ar[2])}}

\* A walk that returned a record for a run of two text elements whose
\* concatenated text was trimmed.
C3_Witness ==
    /\ xpc = "returned"
    /\ highlighted_texts # <<>>
    /\ \E a \in ParagraphsBelowRoot(root) : \E r \in RunsBelow(root, a) :
          /\ Reportable(root, r)
          /\ Trimmed(TextBelow(root, r)) # TextBelow(root, r)

(***************************************************************************)
(* C4.  At every point of the walk, and in the list it returns, the        *)
(* records are sorted by paragraph_index and, within a paragraph, by       *)
(* run_index.                                                              *)
(***************************************************************************)
C4_RecordsSorted ==
    \A k \in 1..(Len(highlighted_texts) - 1) :
        LET a == highlighted_texts[k]
            b == highlighted_texts[k + 1]
        IN  \/ a.paragraph_index < b.paragraph_index
            \/ /\ a.paragraph_index = b.paragraph_index
               /\ a.run_index <= b.run_index

\* The walk is inside the inner loop with two records or more, one run
\* being reported under two nested paragraphs.
C4_Witness ==
    /\ xpc = "for_run"
    /\ Len(highlighted_texts) >= 2
    /\ \E j, k \in DOMAIN highlighted_texts :
          /\ j < k
          /\ RunOfRecord(root, highlighted_texts[j])
                = RunOfRecord(root, highlighted_texts[k])

(***************************************************************************)
(* C5.  The highlight_color of every record is the w:val attribute of the  *)
(* first highlight marker below the run when the marker has one, and       *)
(* "yellow" when it has none; it is never None.                            *)
(***************************************************************************)
C5_ColorOfFirstMarker ==
    \A rec \in Range(highlighted_texts) :
        LET r == RunOfRecord(root, rec)
            m == CHOOSE k \in MarkersBelow(root, r) :
                     \A j \in MarkersBelow(root, r) : k <= j
        IN  /\ rec.highlight_color # None
            /\ rec.highlight_color =
                  IF QVal \in DOMAIN root[m].attrib
                  THEN root[m].attrib[QVal] ELSE "yellow"

\* A record coloured "yellow" by default although a later marker of the
\* same run carries w:val.
C5_Witness ==
    /\ xpc = "returned"
    /\ \E rec \in Range(highlighted_texts) :
          /\ rec.highlight_color = "yellow"
          /\ \E k \in MarkersBelow(root, RunOfRecord(root, rec)) :
                QVal \in DOMAIN root[k].attrib

(***************************************************************************)
(* C10.  The records of one run.                                           *)
(***************************************************************************)
\* The positions of the list whose record designates run r.
RecordsOfRun(t, list, r) == {k \in DOMAIN list : RunOfRecord(t, list[k]) = r}

\* C10 as stated: a reportable run below n paragraph elements is reported
\* n times, once under each of them.
C10_OncePerEnclosingParagraph ==
    xpc = "returned" =>
        \A r \in {k \in DOMAIN root : root[k].tag = "w:r" /\ Reportable(root, k)} :
            Cardinality(RecordsOfRun(root, highlighted_texts, r))
              = Cardinality({a \in DOMAIN root :
                                root[a].tag = "w:p" /\ IsBelow(root, r, a)})

\* C10 as amended: a reportable run is reported once under each paragraph
\* that encloses it and lies below the root (the root element, when it is
\* itself a paragraph, is not searched): n times for n such paragraphs,
\* each time with the indices the paragraph and the run have in the
\* searches.
C10_OncePerParagraphBelowRoot ==
    xpc = "returned" =>
        \A r \in {k \in DOMAIN root : root[k].tag = "w:r" /\ Reportable(root, k)} :
            LET enclosing == {a \in ParagraphsBelowRoot(root) : IsBelow(root, r, a)}
            IN  /\ Cardinality(RecordsOfRun(root, highlighted_texts, r))
                     = Cardinality(enclosing)
                /\ {<<highlighted_texts[k].paragraph_index,
                       highlighted_texts[k].run_index>> :
                        k \in RecordsOfRun(root, highlighted_texts, r)}
                   = {<<Rank(ParagraphsBelowRoot(root), a),
                        Rank(RunsBelow(root, a), r)>> : a \in enclosing}

\* A walk that returned more records than the tree has runs, one run
\* being reported under two paragraphs.
C10_Witness ==
    /\ xpc = "returned"
    /\ Len(highlighted_texts)
          > Cardinality({k \in DOMAIN root : root[k].tag = "w:r"})
    /\ \E r \in DOMAIN root :
          Cardinality(RecordsOfRun(root, highlighted_texts, r)) = 2

(***************************************************************************)
(* The vocabulary of the claims about the conversions.                     *)
(***************************************************************************)
CorruptArchive == HTTPException(400, "Invalid DOCX file format")
PartNotFound ==
    HTTPException(400, "Invalid DOCX structure - missing document.xml")

\* The positions of the entries called word/document.xml.
DocumentEntries(entries) ==
    {k \in DOMAIN entries : entries[k].name = "word/document.xml"}

\* The bytes of the entry that a reader of the archive finds under that
\* name: the last one written.
DocumentBytes(entries) ==
    entries[CHOOSE k \in DocumentEntries(entries) :
                \A j \in DocumentEntries(entries) : j <= k].data

\* Whether some text has these bytes as its UTF-8 encoding.
IsUtf8(b) ==
    \E n \in 0..Len(b) :
        \E text \in [1..n -> {b[k] : k \in DOMAIN b} \cup {Chr.eacute, Chr.euro}] :
            Utf8Encode(text) = b

(***************************************************************************)
(* C1.  For every text X of the bounded set, docx_to_xml applied to the    *)
(* package xml_to_docx makes of X returns X; the package holds one entry   *)
(* named word/document.xml, so that nothing written later replaces it.     *)
(***************************************************************************)
C1_RoundTrip ==
    given.kind = "text" =>
        /\ cpc \in {"xml", "failed"} => ~cret.raised /\ cret.value = xml_content
        /\ cpc = "package" =>
              Cardinality(DocumentEntries(ZipOpen(docx_content).entries)) = 1

\* A round trip of a text of three characters, two of them of several
\* bytes.
C1_Witness ==
    /\ given.kind = "text"
    /\ cpc = "xml"
    /\ Len(xml_content) = 3
    /\ {Chr.eacute, Chr.euro} \subseteq Range(xml_content)

(***************************************************************************)
(* C2.  For every text, well-formed or not, xml_to_docx succeeds, and the  *)
(* package holds five entries, one for each of the five names, the         *)
(* document being the text as given and the four others the fixed parts.   *)
(***************************************************************************)
C2_FiveParts ==
    (given.kind = "text" /\ cpc # "text") =>
        LET z == ZipOpen(docx_content)
        IN  /\ z.ok
            /\ Len(z.entries) = 5
            /\ {z.entries[k].name : k \in DOMAIN z.entries}
                 = {"[Content_Types].xml", "_rels/.rels",
                    "word/_rels/document.xml.rels", "word/styles.xml",
                    "word/document.xml"}
            /\ \A k \in DOMAIN z.entries :
                  z.entries[k].data =
                      Utf8Encode(CASE z.entries[k].name = "[Content_Types].xml" -> content_types
                                   [] z.entries[k].name = "_rels/.rels" -> main_rels
                                   [] z.entries[k].name = "word/_rels/document.xml.rels" -> doc_rels
                                   [] z.entries[k].name = "word/styles.xml" -> styles
                                   [] z.entries[k].name = "word/document.xml" -> xml_content)

\* A package made of a text that is no well-formed document.
C2_Witness ==
    /\ given.kind = "text"
    /\ cpc = "package"
    /\ xml_content = <<Chr.D, Chr.eacute, Chr.x>>
    /\ ~fromstring(xml_content).ok

(***************************************************************************)
(* C6.  docx_to_xml on a buffer that is no archive raises the error of a   *)
(* corrupt archive, and on an archive without word/document.xml the error  *)
(* of a missing part; the two errors differ from each other and from any   *)
(* other error of docx_to_xml, and no text is returned with them.          *)
(***************************************************************************)
C6_CorruptAndMissingAreTold ==
    cpc \in {"xml", "failed"} =>
        /\ given.kind = "garbage" =>
              cret.raised /\ cret.exc = CorruptArchive /\ cret.value = <<>>
        /\ (given.kind = "archive" /\ DocumentEntries(given.entries) = {}) =>
              cret.raised /\ cret.exc = PartNotFound /\ cret.value = <<>>
        /\ (given.kind = "archive" /\ DocumentEntries(given.entries) # {}
               /\ cret.raised) =>
              cret.exc \notin {CorruptArchive, PartNotFound}
        /\ CorruptArchive # PartNotFound

\* docx_to_xml has failed on an archive that holds a part, but no document.
C6_Witness ==
    /\ cpc = "failed"
    /\ given.kind = "archive"
    /\ given.entries # <<>>
    /\ DocumentEntries(given.entries) = {}
    /\ cret.exc = PartNotFound

(***************************************************************************)
(* C7.  docx_to_xml on an archive whose word/document.xml is no UTF-8      *)
(* raises an error of its own, an error about the input (a 4xx), which is  *)
(* neither that of a corrupt archive, nor that of a missing part, nor the  *)
(* generic internal error.                                                 *)
(***************************************************************************)
C7_InvalidEncodingHasItsOwnError ==
    (/\ cpc \in {"xml", "failed"}
     /\ given.kind = "archive"
     /\ DocumentEntries(given.entries) # {}
     /\ ~IsUtf8(DocumentBytes(given.entries))) =>
        /\ cret.raised
        /\ cret.exc.status_code >= 400 /\ cret.exc.status_code < 500
        /\ cret.exc \notin {CorruptArchive, PartNotFound}
        /\ cret.exc # docx_to_xml_except(Exception("Exception", 0, cret.exc.detail))

(***************************************************************************)
(* The vocabulary of the claims about the requests.                        *)
(***************************************************************************)
\* Whether the request passes the handler's check of the file type.
FileTypeAccepted ==
    IF endpoint = "convert_docx"
    THEN file.filename.suffix \in {"xml", "Xml"}
    ELSE file.filename.suffix \in {"docx", "DOCX"}

(***************************************************************************)
(* C8.  In submit_docx, a failure at any stage ends the request with an    *)
(* error that carries no records and is the error the stage raised (a      *)
(* malformed document is answered with the 400 that carries the parser's   *)
(* diagnostic, not with a 500); a success envelope is made only when       *)
(* every stage has succeeded, and it counts the records it carries.        *)
(***************************************************************************)
C8_AllOrNothing ==
    endpoint = "submit_docx" =>
        /\ pc # "done" => response = NoResponse
        /\ (pc = "done" /\ response.raised) =>
              /\ response.body = NoBody
              /\ stage_exc # NoException
              /\ response.exc = stage_exc
        /\ (pc = "done" /\ xpc = "raised") =>
              /\ response.raised
              /\ response.exc =
                    HTTPException(400, "Invalid XML format: "
                                           \o fromstring(document_xml).e)
        /\ (pc = "done" /\ ~response.raised) =>
              /\ FileTypeAccepted
              /\ content # <<>>
              /\ calls = <<"docx_to_xml", "extract_highlighted_text">>
              /\ ~docx_to_xml(content).raised
              /\ xpc = "returned"
              /\ stage_exc = NoException
              /\ response.body.success
              /\ response.body.highlighted_texts = highlighted_texts
              /\ response.body.highlighted_text_count
                    = Len(response.body.highlighted_texts)

\* submit_docx has answered an archive whose document is malformed, after
\* docx_to_xml succeeded.
C8_Witness ==
    /\ endpoint = "submit_docx"
    /\ pc = "done"
    /\ xpc = "raised"
    /\ calls = <<"docx_to_xml", "extract_highlighted_text">>
    /\ response.exc.status_code = 400

(***************************************************************************)
(* C9.  In each of the three handlers, an upload of no bytes that passed   *)
(* the check of the file type is answered with the error of an empty file, *)
(* as raised, before any operation of DocxProcessor is called; the error   *)
(* is not the one of a corrupt archive.                                    *)
(***************************************************************************)
C9_EmptyInputRejectedFirst ==
    (Len(file.content) = 0 /\ endpoint # "none") =>
        /\ calls = <<>>
        /\ (pc = "done" /\ FileTypeAccepted) =>
              /\ response.raised
              /\ response.exc = HTTPException(400, "Empty file uploaded")
              /\ response.exc = stage_exc
              /\ response.exc # CorruptArchive
              /\ response.exc # docx_to_xml(file.content).exc

\* convert_docx has answered an empty upload.
C9_Witness ==
    /\ endpoint = "convert_docx"
    /\ Len(file.content) = 0
    /\ FileTypeAccepted
    /\ pc = "done"
    /\ response.exc.detail = "Empty file uploaded"

=============================================================================
